---- MODULE Spec2Model ----
(***************************************************************************)
(* The semantic query matcher of backend/chatbot/semantic_model.py:        *)
(* the lazily initialised module globals _tokenizer, _model, _QUESTIONS,   *)
(* get_embedding and find_best_match, one action per statement that reads  *)
(* or writes a global or that can raise.                                   *)
(*                                                                         *)
(* Optional values are sequences: <<>> is Python's None for _QUESTIONS and *)
(* "nothing returned" for a call's result, <<v>> is the value v.  The      *)
(* tokenizer and model objects are numbered by the load that made them,    *)
(* 0 being None.  A similarity is a pair <<d, n>> standing for the real    *)
(* number d / sqrt(n), so that cosines of integer vectors are compared     *)
(* exactly.                                                                *)
(***************************************************************************)
EXTENDS Integers, Sequences, FiniteSets

VARIABLES
    _tokenizer,   \* module global, 0 = None, k = the object of the k-th load
    _model,       \* module global, 0 = None, k = the object of the k-th load
    _QUESTIONS,   \* module global, <<>> = None, <<qs>> = the loaded list
    file,         \* questions.json: <<>> = missing or malformed, <<qs>> = its "questions"
    tokLoads,     \* completed AutoTokenizer.from_pretrained calls
    modelLoads,   \* completed AutoModel.from_pretrained calls
    qLoads,       \* completed loads of questions.json
    proc          \* per request thread: position and locals

vars == <<_tokenizer, _model, _QUESTIONS, file, tokLoads, modelLoads, qLoads, proc>>

globals == <<_tokenizer, _model, _QUESTIONS, tokLoads, modelLoads, qLoads>>

-----------------------------------------------------------------------------
(* Bounds *)

MaxLen == 2        \* longest reference list in questions.json
MaxLoads == 3      \* cap on each load counter

-----------------------------------------------------------------------------
(* Values *)

None == "None"

\* A JSON number among the "questions": the tokenizer rejects it.
NonStr == "<42>"

Strings == {"LIBRARY", "library", "CAFETERIA", "", "GIBBERISH"}

Texts == Strings \cup {NonStr}

Procs == {"t1", "t2"}

MainThread == "t1"

NoError == "NoError"

RECURSIVE SeqsUpTo(_, _)
SeqsUpTo(S, n) ==
    IF n = 0 THEN {<<>>}
    ELSE LET shorter == SeqsUpTo(S, n - 1)
         IN  shorter \cup {Append(s, x) : s \in {t \in shorter : Len(t) = n - 1}, x \in S}

Range(s) == {s[i] : i \in DOMAIN s}

-----------------------------------------------------------------------------
(* get_embedding's pure part: tokenizer, model, mean pooling *)

\* tokenizer(text, ...): the all-MiniLM-L6-v2 tokenizer is uncased, so texts
\* that differ in case only give the same tokens; a non-string is rejected.
Encodable(text) == text \in Strings

Tokenize(text) ==
    CASE text = "LIBRARY" -> "library"
      [] text = "CAFETERIA" -> "cafeteria"
      [] text = "GIBBERISH" -> "gibberish"
      [] OTHER -> text

\* model(**tokens).last_hidden_state.mean(dim=1): a fixed vector per token
\* sequence.
Pooled(tokens) ==
    CASE tokens = "library" -> <<1, 1, 0>>
      [] tokens = "cafeteria" -> <<3, 4, 5>>
      [] tokens = "gibberish" -> <<-1, -1, 0>>
      [] OTHER -> <<1, 0, 0>>

Embed(text) == Pooled(Tokenize(text))

Dot(a, b) == a[1] * b[1] + a[2] * b[2] + a[3] * b[3]

\* torch.nn.functional.cosine_similarity: x.y / max(|x||y|, eps); the value
\* d / sqrt(n) is kept as <<d, n>>.
CosineSimilarity(a, b) ==
    LET n == Dot(a, a) * Dot(b, b)
    IN  IF n = 0 THEN <<0, 1>> ELSE <<Dot(a, b), n>>

\* s > t for s = d1/sqrt(n1), t = d2/sqrt(n2), n1, n2 > 0
Greater(s, t) ==
    CASE s[1] >= 0 /\ t[1] < 0 -> TRUE
      [] s[1] < 0 /\ t[1] >= 0 -> FALSE
      [] s[1] >= 0 /\ t[1] >= 0 -> s[1] * s[1] * t[2] > t[1] * t[1] * s[2]
      [] OTHER -> s[1] * s[1] * t[2] < t[1] * t[1] * s[2]

\* highest_similarity = -1
InitialHighest == <<-1, 1>>

\* the acceptance threshold 0.7 = 7 / sqrt(100); <<1, 1, 0>> and <<3, 4, 5>>
\* have exactly this cosine
Threshold == <<7, 100>>

\* mutant: a later question with an equal score replaces the best match
ImprovesOrEqual(similarity, highest) == ~Greater(highest, similarity)

\* if similarity > highest_similarity
Improves(similarity, highest) == Greater(similarity, highest)

\* mutant: the threshold is inclusive
ReturnValueAtLeast(best_match, highest) ==
    IF ~Greater(Threshold, highest) THEN best_match ELSE None

\* mutant: the empty string stands for no match
ReturnValueEmpty(best_match, highest) ==
    IF Greater(highest, Threshold) THEN best_match ELSE ""

\* mutant: the match is returned in the tokenizer's normalised form
ReturnValueNormalised(best_match, highest) ==
    IF Greater(highest, Threshold) THEN Tokenize(best_match) ELSE None

\* return best_match if highest_similarity > 0.7 else None
ReturnValue(best_match, highest) ==
    IF Greater(highest, Threshold) THEN best_match ELSE None

\* mutant: no lazy check, every call loads
InitEntryAlways(tok, mdl) == "lm_tok"

\* mutant: each global is loaded only if it is missing
InitEntryEach(tok, mdl) ==
    IF tok = 0 THEN "lm_tok" ELSE IF mdl = 0 THEN "lm_model" ELSE "lm_return"

\* if _tokenizer is None or _model is None: where _load_model goes next
InitEntry(tok, mdl) ==
    IF tok = 0 \/ mdl = 0 THEN "lm_tok" ELSE "lm_return"

-----------------------------------------------------------------------------
(* State *)

Idle ==
    [pc |-> "idle", kind |-> "none", user_query |-> None, text |-> None,
     retTo |-> "none", QUESTIONS |-> <<>>, tokenizer |-> 0, model |-> 0,
     user_embedding |-> <<>>, question |-> None,
     question_embedding |-> <<>>, best_match |-> None,
     highest_similarity |-> InitialHighest, idx |-> 0,
     result |-> <<>>, error |-> NoError,
     simCount |-> 0, attempts |-> 0, loaded |-> {}]

InitWith(files) ==
    /\ _tokenizer = 0
    /\ _model = 0
    /\ _QUESTIONS = <<>>
    /\ file \in files
    /\ tokLoads = 0
    /\ modelLoads = 0
    /\ qLoads = 0
    /\ proc = [p \in Procs |-> Idle]

AtRest(p) == proc[p].pc \in {"idle", "returned", "raised"}

Raise(p, e) ==
    proc' = [proc EXCEPT ![p] = [@ EXCEPT !.pc = "unwind", !.error = e]]

-----------------------------------------------------------------------------
(* Calls *)

\* a request thread calls find_best_match(user_query)
CallFind(p, q) ==
    /\ AtRest(p)
    /\ proc' = [proc EXCEPT ![p] =
                   [Idle EXCEPT !.pc = "lq_check", !.kind = "find", !.user_query = q]]
    /\ UNCHANGED <<globals, file>>

\* a request thread calls get_embedding(text) directly
CallEmbed(p, t) ==
    /\ AtRest(p)
    /\ proc' = [proc EXCEPT ![p] =
                   [Idle EXCEPT !.pc = "lm_check", !.kind = "embed", !.text = t,
                                !.retTo = "api"]]
    /\ UNCHANGED <<globals, file>>

-----------------------------------------------------------------------------
(* _load_questions *)

\* if _QUESTIONS is None:
LoadQuestionsCheck(p) ==
    /\ proc[p].pc = "lq_check"
    /\ proc' = [proc EXCEPT ![p].pc = IF _QUESTIONS = <<>> THEN "lq_read" ELSE "lq_return"]
    /\ UNCHANGED <<globals, file>>

\* with open(questions_path) as f: _QUESTIONS = json.load(f)["questions"]
LoadQuestionsRead(p) ==
    /\ proc[p].pc = "lq_read"
    /\ IF file = <<>>
       THEN /\ Raise(p, "ConfigurationError")
            /\ UNCHANGED <<globals, file>>
       ELSE /\ qLoads < MaxLoads
            /\ _QUESTIONS' = file
            /\ qLoads' = qLoads + 1
            /\ proc' = [proc EXCEPT ![p].pc = "lq_return"]
            /\ UNCHANGED <<_tokenizer, _model, tokLoads, modelLoads, file>>

\* return _QUESTIONS; then user_embedding = get_embedding(user_query) is called
LoadQuestionsReturn(p) ==
    /\ proc[p].pc = "lq_return"
    /\ proc' = [proc EXCEPT ![p] =
                   [@ EXCEPT !.pc = "lm_check", !.QUESTIONS = _QUESTIONS,
                             !.text = proc[p].user_query, !.retTo = "user"]]
    /\ UNCHANGED <<globals, file>>

-----------------------------------------------------------------------------
(* _load_model *)

\* if _tokenizer is None or _model is None: print("Loading semantic model...")
LoadModelCheck(p) ==
    /\ proc[p].pc = "lm_check"
    /\ LET next == InitEntry(_tokenizer, _model)
       IN  proc' = [proc EXCEPT ![p] =
                       [@ EXCEPT !.pc = next, !.loaded = {},
                                 !.attempts = IF next = "lm_return" THEN @ ELSE @ + 1]]
    /\ UNCHANGED <<globals, file>>

\* _tokenizer = AutoTokenizer.from_pretrained(MODEL_NAME), which may raise
LoadTokenizer(p) ==
    /\ proc[p].pc = "lm_tok"
    /\ \/ /\ Raise(p, "ModelLoadError")
          /\ UNCHANGED <<globals, file>>
       \/ /\ tokLoads < MaxLoads
          /\ tokLoads' = tokLoads + 1
          /\ _tokenizer' = tokLoads + 1
          /\ proc' = [proc EXCEPT ![p] =
                         [@ EXCEPT !.pc = "lm_model", !.loaded = @ \cup {"tokenizer"}]]
          /\ UNCHANGED <<_model, _QUESTIONS, modelLoads, qLoads, file>>

\* _model = AutoModel.from_pretrained(MODEL_NAME), which may raise
LoadModelWeights(p) ==
    /\ proc[p].pc = "lm_model"
    /\ \/ /\ Raise(p, "ModelLoadError")
          /\ UNCHANGED <<globals, file>>
       \/ /\ modelLoads < MaxLoads
          /\ modelLoads' = modelLoads + 1
          /\ _model' = modelLoads + 1
          /\ proc' = [proc EXCEPT ![p] =
                         [@ EXCEPT !.pc = "lm_return", !.loaded = @ \cup {"model"}]]
          /\ UNCHANGED <<_tokenizer, _QUESTIONS, tokLoads, qLoads, file>>

\* return _tokenizer, _model  (tokenizer, model = _load_model())
LoadModelReturn(p) ==
    /\ proc[p].pc = "lm_return"
    /\ proc' = [proc EXCEPT ![p] =
                   [@ EXCEPT !.pc = "ge_encode", !.tokenizer = _tokenizer,
                             !.model = _model]]
    /\ UNCHANGED <<globals, file>>

-----------------------------------------------------------------------------
(* get_embedding after _load_model, and find_best_match's scan *)

\* mutant: a failed encoding drops the model handle
EncodeFailResets ==
    /\ _tokenizer' = 0
    /\ _model' = 0
    /\ UNCHANGED <<_QUESTIONS, tokLoads, modelLoads, qLoads>>

\* what a failed tokenizer(text, ...) does to the globals: nothing
EncodeFailGlobals ==
    UNCHANGED globals

\* tokens = tokenizer(text, ...); output = model(**tokens); return the mean
Encode(p) ==
    /\ proc[p].pc = "ge_encode"
    /\ IF ~Encodable(proc[p].text)
       THEN /\ Raise(p, "EncodingError")
            /\ EncodeFailGlobals
            /\ UNCHANGED file
       ELSE /\ proc' = [proc EXCEPT ![p] =
                  CASE @.retTo = "api" ->
                         [@ EXCEPT !.pc = "returned", !.result = <<Embed(proc[p].text)>>]
                    [] @.retTo = "user" ->
                         [@ EXCEPT !.pc = "fbm_loop",
                                   !.user_embedding = Embed(proc[p].text),
                                   !.best_match = None,
                                   !.highest_similarity = InitialHighest, !.idx = 1]
                    [] OTHER ->
                         [@ EXCEPT !.pc = "fbm_score",
                                   !.question_embedding = Embed(proc[p].text)]]
            /\ UNCHANGED <<globals, file>>

\* for question in QUESTIONS: question_embedding = get_embedding(question)
LoopHead(p) ==
    /\ proc[p].pc = "fbm_loop"
    /\ LET qs == proc[p].QUESTIONS[1]
       IN  proc' = [proc EXCEPT ![p] =
               IF @.idx <= Len(qs)
               THEN [@ EXCEPT !.pc = "lm_check", !.question = qs[proc[p].idx],
                              !.text = qs[proc[p].idx], !.retTo = "question"]
               ELSE [@ EXCEPT !.pc = "fbm_return"]]
    /\ UNCHANGED <<globals, file>>

\* similarity = cosine_similarity(user_embedding, question_embedding).item()
\* if similarity > highest_similarity: ...
Score(p) ==
    /\ proc[p].pc = "fbm_score"
    /\ LET similarity == CosineSimilarity(proc[p].user_embedding,
                                          proc[p].question_embedding)
           better == Improves(similarity, proc[p].highest_similarity)
       IN  proc' = [proc EXCEPT ![p] =
               [@ EXCEPT !.pc = "fbm_loop", !.idx = @ + 1, !.simCount = @ + 1,
                         !.highest_similarity = IF better THEN similarity ELSE @,
                         !.best_match = IF better THEN proc[p].question ELSE @]]
    /\ UNCHANGED <<globals, file>>

\* return best_match if highest_similarity > 0.7 else None
Return(p) ==
    /\ proc[p].pc = "fbm_return"
    /\ proc' = [proc EXCEPT ![p] =
                   [@ EXCEPT !.pc = "returned",
                             !.result = <<ReturnValue(proc[p].best_match,
                                                     proc[p].highest_similarity)>>]]
    /\ UNCHANGED <<globals, file>>

\* mutant: a handler returns the best match so far
UnwoundBestGuess(f) ==
    [f EXCEPT !.pc = "returned", !.result = <<f.best_match>>]

\* what the caller of a raising call gets: nothing is returned
Unwound(f) ==
    [f EXCEPT !.pc = "raised", !.result = <<>>]

\* an exception leaves get_embedding and find_best_match: neither has a handler
Propagate(p) ==
    /\ proc[p].pc = "unwind"
    /\ proc' = [proc EXCEPT ![p] = Unwound(@)]
    /\ UNCHANGED <<globals, file>>

-----------------------------------------------------------------------------
(* Specifications *)

Step(p) ==
    \/ LoadQuestionsCheck(p)
    \/ LoadQuestionsRead(p)
    \/ LoadQuestionsReturn(p)
    \/ LoadModelCheck(p)
    \/ LoadTokenizer(p)
    \/ LoadModelWeights(p)
    \/ LoadModelReturn(p)
    \/ Encode(p)
    \/ LoopHead(p)
    \/ Score(p)
    \/ Return(p)
    \/ Propagate(p)

Files == {<<>>} \cup {<<qs>> : qs \in SeqsUpTo(Texts, MaxLen)}

\* one request at a time: every call is made by the main thread
Init == InitWith(Files)

Next ==
    \/ \E q \in Texts : CallFind(MainThread, q)
    \/ \E t \in Texts : CallEmbed(MainThread, t)
    \/ Step(MainThread)

Spec == Init /\ [][Next]_vars

\* concurrent requests: the threaded server runs a call per request thread
MaxRaceLen == 1

RaceTexts == {"LIBRARY", NonStr}

RaceFiles == {<<>>} \cup {<<qs>> : qs \in SeqsUpTo(RaceTexts, MaxRaceLen)}

InitRace == InitWith(RaceFiles)

NextRace ==
    \E p \in Procs :
        \/ \E q \in RaceTexts : CallFind(p, q)
        \/ \E t \in RaceTexts : CallEmbed(p, t)
        \/ Step(p)

SpecRace == InitRace /\ [][NextRace]_vars

-----------------------------------------------------------------------------
(* Properties *)

\* a find_best_match call that has returned normally
Done(p) == proc[p].pc = "returned" /\ proc[p].kind = "find"

\* the similarity the scan computes for reference question r
Sim(q, r) == CosineSimilarity(Embed(q), Embed(r))

Equal(s, t) == ~Greater(s, t) /\ ~Greater(t, s)

\* qs[i] scores at least as high as every reference question
IsMax(qs, q, i) == \A j \in DOMAIN qs : ~Greater(Sim(q, qs[j]), Sim(q, qs[i]))

\* qs[i] is the first reference question, in load order, with the maximal score
FirstMax(qs, q, i) ==
    /\ IsMax(qs, q, i)
    /\ \A j \in DOMAIN qs : j < i => Greater(Sim(q, qs[i]), Sim(q, qs[j]))

Initialised == _tokenizer # 0 /\ _model # 0

\* C1 as stated: a call that returns normally returns a member of the loaded
\* reference set or None, and never the empty string.
C1_MemberAndNeverEmpty ==
    \A p \in Procs : Done(p) =>
        LET r == proc[p].result[1]
        IN  /\ r = None \/ r \in Range(file[1])
            /\ r # ""

\* C1 amended: a call that returns normally returns a member of the loaded
\* reference set or None; it returns the empty string only when the empty
\* string is itself a reference question.
C1_MemberOrNone ==
    \A p \in Procs : Done(p) =>
        LET r == proc[p].result[1]
        IN  /\ r = None \/ r \in Range(file[1])
            /\ r = "" => "" \in Range(file[1])

\* C1 witness: a call returned the empty string, a reference question.
C1_Witness ==
    \E p \in Procs : Done(p) /\ proc[p].result = <<"">>

\* C2: after the whole scan, a reference question is returned iff the maximal
\* similarity strictly exceeds 0.7, and it is then a best-scoring question; a
\* maximum below or exactly at 0.7 gives None.
C2_StrictThreshold ==
    \A p \in Procs : Done(p) =>
        LET r == proc[p].result[1]
            q == proc[p].user_query
            qs == file[1]
        IN  /\ r # None <=> \E i \in DOMAIN qs : Greater(Sim(q, qs[i]), Threshold)
            /\ r # None => \E i \in DOMAIN qs : qs[i] = r /\ IsMax(qs, q, i)

\* C2 witness: the maximal similarity is exactly 0.7 and None was returned.
C2_Witness ==
    \E p \in Procs :
        /\ Done(p)
        /\ proc[p].result = <<None>>
        /\ \E i \in DOMAIN file[1] :
              /\ IsMax(file[1], proc[p].user_query, i)
              /\ Equal(Sim(proc[p].user_query, file[1][i]), Threshold)

\* C3: when several reference questions attain the maximal similarity and it
\* exceeds 0.7, the one earliest in load order is returned.
C3_FirstMaxWins ==
    \A p \in Procs : (Done(p) /\ proc[p].result # <<None>>) =>
        \E i \in DOMAIN file[1] :
            /\ file[1][i] = proc[p].result[1]
            /\ FirstMax(file[1], proc[p].user_query, i)

\* C3 witness: two different reference questions tie at the maximum and the
\* earlier one was returned.
C3_Witness ==
    \E p \in Procs :
        /\ Done(p)
        /\ \E i, j \in DOMAIN file[1] :
              /\ i < j
              /\ file[1][i] # file[1][j]
              /\ IsMax(file[1], proc[p].user_query, i)
              /\ IsMax(file[1], proc[p].user_query, j)
              /\ proc[p].result = <<file[1][i]>>

\* C4 as stated: a query identical to a reference question gets that same
\* reference question back.
C4_ReturnsTheQuery ==
    \A p \in Procs : (Done(p) /\ proc[p].user_query \in Range(file[1])) =>
        proc[p].result = <<proc[p].user_query>>

\* C4 amended: a query identical to a reference question gets back the
\* earliest reference question with the maximal similarity: the query's own
\* string, unless an earlier reference question scores as high as the query
\* scores against itself.
C4_ReturnsFirstFullScore ==
    \A p \in Procs : (Done(p) /\ proc[p].user_query \in Range(file[1])) =>
        LET r == proc[p].result[1]
            q == proc[p].user_query
            qs == file[1]
        IN  /\ r # None
            /\ \E i \in DOMAIN qs : qs[i] = r /\ FirstMax(qs, q, i)
            /\ \/ r = q
               \/ \E i, j \in DOMAIN qs :
                     /\ i < j
                     /\ qs[i] = r
                     /\ qs[j] = q
                     /\ ~Greater(Sim(q, q), Sim(q, r))

\* C4 witness: the query is a reference question and an earlier question with
\* the same score was returned instead.
C4_Witness ==
    \E p \in Procs :
        /\ Done(p)
        /\ proc[p].user_query \in Range(file[1])
        /\ proc[p].result # <<proc[p].user_query>>

\* C5: with an empty reference set no similarity is computed, the loop body is
\* never entered, and a call that returns returns None.
C5_EmptySet ==
    \A p \in Procs : (proc[p].kind = "find" /\ proc[p].QUESTIONS = <<<<>>>>) =>
        /\ proc[p].simCount = 0
        /\ proc[p].pc # "fbm_score"
        /\ proc[p].retTo # "question"
        /\ proc[p].pc = "returned" => proc[p].result = <<None>>

\* C5 witness: a call over the empty reference set returned.
C5_Witness ==
    \E p \in Procs : Done(p) /\ proc[p].QUESTIONS = <<<<>>>> /\ file = <<<<>>>>

\* C6: over sequential calls the model handle and the reference set are each
\* initialised once, by the first call that gets that far; every call that
\* returns has found them initialised, and once initialised they never change.
C6_InitialisedOnce ==
    /\ [](/\ modelLoads <= 1
          /\ qLoads <= 1
          /\ \A p \in Procs :
                proc[p].pc = "returned" =>
                    /\ modelLoads = 1
                    /\ Initialised
                    /\ proc[p].kind = "find" => qLoads = 1 /\ _QUESTIONS # <<>>)
    /\ [][/\ Initialised => UNCHANGED <<_tokenizer, _model>>
          /\ _QUESTIONS # <<>> => UNCHANGED _QUESTIONS]_vars

\* C6 witness: a call returned that did no initialisation of its own.
C6_Witness ==
    \E p \in Procs :
        /\ Done(p)
        /\ proc[p].attempts = 0
        /\ modelLoads = 1
        /\ qLoads = 1

\* C7: a failed reference-set load, model load or encoding ends the call with
\* the error; nothing is returned, in particular not the best match so far.
C7_ErrorsPropagate ==
    \A p \in Procs :
        /\ proc[p].error # NoError => proc[p].pc \in {"unwind", "raised"}
        /\ proc[p].pc = "raised" => proc[p].result = <<>> /\ proc[p].error # NoError
        /\ proc[p].pc = "returned" => proc[p].error = NoError /\ proc[p].result # <<>>

\* C7 witness: a call raised on a reference question after an earlier
\* question had already become the best match.
C7_Witness ==
    \E p \in Procs :
        /\ proc[p].pc = "raised"
        /\ proc[p].kind = "find"
        /\ proc[p].error = "EncodingError"
        /\ proc[p].best_match # None
        /\ Greater(proc[p].highest_similarity, Threshold)

\* C8: an encoding failure with the model initialised changes no global; the
\* handle stays initialised, no later call initialises again, and encoding an
\* encodable text does not fail.
C8_EncodingErrorFrame ==
    /\ [][\A p \in Procs :
             /\ (Initialised /\ proc[p].pc = "ge_encode" /\ proc'[p].pc = "unwind")
                    => UNCHANGED globals
             /\ (proc[p].pc = "ge_encode" /\ Encodable(proc[p].text))
                    => proc'[p].pc # "unwind"]_vars
    /\ [](Initialised => \A p \in Procs : proc[p].pc \notin {"lm_tok", "lm_model"})

\* C8 witness: an encoding just failed while the model was initialised.
C8_Witness ==
    \E p \in Procs :
        /\ proc[p].pc = "unwind"
        /\ proc[p].error = "EncodingError"
        /\ Initialised

\* C9: the first-call check is not guarded; the loads can run once per thread
\* that passed the check before the first assignment, so more than once, but
\* no more often than there are threads.
C9_LoadsPerThread ==
    /\ modelLoads <= Cardinality(Procs)
    /\ qLoads <= Cardinality(Procs)

\* C9 witness: the model load and the reference-set load each ran twice.
C9_Witness ==
    modelLoads = 2 /\ qLoads = 2 /\ tokLoads = 2

\* C10: a call whose initialisation fails attempted it once; it leaves the
\* handle uninitialised, a later initialisation loads tokenizer and model
\* both, and inference never runs with a missing tokenizer or model.
C10_FailedInitialisation ==
    \A p \in Procs :
        /\ (proc[p].pc \in {"unwind", "raised"} /\ proc[p].error = "ModelLoadError")
               => proc[p].attempts = 1 /\ ~Initialised
        /\ proc[p].pc = "lm_model" => proc[p].loaded = {"tokenizer"}
        /\ (proc[p].pc = "lm_return" /\ proc[p].loaded # {})
               => proc[p].loaded = {"tokenizer", "model"}
        /\ proc[p].pc = "ge_encode" => proc[p].tokenizer # 0 /\ proc[p].model # 0

\* C10 witness: after a model load that failed with the tokenizer already
\* stored, a later call has loaded tokenizer and model again.
C10_Witness ==
    \E p \in Procs :
        /\ proc[p].pc = "lm_return"
        /\ proc[p].loaded = {"tokenizer", "model"}
        /\ tokLoads = 2
        /\ modelLoads = 1

====
